---- MODULE Spec2Model ----
(***************************************************************************)
(* A model of stacker's build orchestrator (src/build.go):                 *)
(*   Builder.BuildMultiple, Builder.Build and generateSquashfsLayer.       *)
(* The Snapshot Store, the Image Store, the Build Cache and the            *)
(* dependency graph are collaborators whose code is outside build.go; they *)
(* are modelled by what build.go asks of them.                             *)
(***************************************************************************)
EXTENDS Naturals, Sequences, FiniteSets, TLC

\* ---------------------------------------------------------------- bounds
\* Number of BuildMultiple invocations (one Builder each) in a behaviour.
MaxRuns == 2
\* Number of generateSquashfsLayer calls made in a row on one working bundle.
MaxCalls == 2
\* Number of invocations followed for a recipe set of a single layer.
MaxSoloRuns == 3

\* ------------------------------------------------------------- universes
\* Layer names and recipe file paths; numbers stand for names, their order
\* for the lexical order of the names. A recipe set uses the first two or all
\* three layer names.
Layers == 1..3
Files == 1..3
LayerTypes == {"tar", "squashfs", "bogus"}

\* The fixed name of the ephemeral working snapshot.
WorkingContainerName == 0

\* ispec.Descriptor{}: the build-only marker stored in the cache.
EmptyDescriptor == <<0, 0, "empty">>
\* The descriptor written by a build step: content addressed, and unique per
\* build because the manifest carries time.Now().
Descriptor(layer, run, stage) == <<layer, run, stage>>

VARIABLES
    \* the recipe set on disk
    fileOf, from, buildOnly, ver,
    \* the stores, which persist across invocations
    cache, refs, snaps,
    \* the Builder and the position of its BuildMultiple/Build call
    pc, opts, sortedPaths, fileIdx, order, layerIdx, builtStackerfiles, ret,
    \* the number of invocations so far
    runNo,
    \* history of the current invocation
    invoked, succeeded, looked, hits, ops, refBefore, failed, gcFailed,
    rerun, lastClean,
    \* the working bundle and the position of a generateSquashfsLayer call
    rootfs, mtrees, metaFrom, blobs, gpc, gerr, diffs, todo, missing, paths,
    made, payload,
    \* history of the generateSquashfsLayer calls: the manifest on record and
    \* the tree when the current call began, and what each call returned
    recorded, before, runs, prev

recipeVars == <<fileOf, from, buildOnly, ver>>
storeVars == <<cache, refs, snaps>>
posVars == <<pc, opts, sortedPaths, fileIdx, order, layerIdx, builtStackerfiles, ret>>
histVars == <<invoked, succeeded, looked, hits, ops, refBefore, failed, gcFailed,
              rerun, lastClean>>
buildVars == <<recipeVars, storeVars, posVars, runNo, histVars>>
bundleVars == <<rootfs, mtrees, metaFrom, blobs>>
genVars == <<gpc, gerr, diffs, todo, missing, paths, made, payload,
             recorded, before, runs, prev>>
vars == <<buildVars, bundleVars, genVars>>

\* ------------------------------------------------------- pure helpers
Min(S) == CHOOSE x \in S : \A y \in S : x <= y

RefOf(r, name) == IF name \in DOMAIN r THEN r[name] ELSE <<>>

NoFailure == [step |-> "", layer |-> 0]

\* One operation on a collaborator: <<operation, target, layer, flag>>.
Op(op, target, layer, flag) == <<op, target, layer, flag>>

\* ------------------------------------------------ dependency graph
\* The layers of the recipe set, and the recipe files that hold them.
RecipeLayers == DOMAIN fileOf
LayersOf(f) == {l \in RecipeLayers : fileOf[l] = f}
UsedFiles == {fileOf[l] : l \in RecipeLayers}

\* Prerequisites(file): the files providing a base layer of one of its layers.
Prerequisites(f) == {fileOf[from[l]] : l \in {x \in LayersOf(f) : from[x] # 0}} \ {f}

\* Kahn-style topological sort, ties broken by the lowest name; stops short
\* of the full set when what remains is cyclic.
RECURSIVE TopoSort(_, _, _)
TopoSort(rem, acc, deps) ==
    LET placed == {acc[i] : i \in 1..Len(acc)}
        ready == {n \in rem : deps[n] \subseteq placed}
    IN  IF ready = {} THEN acc
        ELSE TopoSort(rem \ {Min(ready)}, Append(acc, Min(ready)), deps)

\* dag.Sort()
Sort == TopoSort(UsedFiles, <<>>, [f \in UsedFiles |-> Prerequisites(f)])
\* NewStackerFilesDAG fails on a cycle
DagHasCycle == Len(Sort) < Cardinality(UsedFiles)

\* sf.DependencyOrder(): the layers of a file, bases first.
LayerDeps(l) == IF from[l] # 0 /\ fileOf[from[l]] = fileOf[l] THEN {from[l]} ELSE {}
DependencyOrder(f) == TopoSort(LayersOf(f), <<>>, [l \in LayersOf(f) |-> LayerDeps(l)])
OrderHasCycle(f) == Len(DependencyOrder(f)) < Cardinality(LayersOf(f))

\* ----------------------------------------------------- build cache
\* The identity a cache entry is compared by: the recipe's own definition and
\* the resolved identity of its base layer.
\* A sequence of numbers: the layer's recipe version, then its base's cached
\* identity and the build its cached blob comes from (0: no entry for the base).
LayerIdentity(c, l) ==
    <<ver[l]>> \o (IF from[l] = 0 THEN <<>>
                   ELSE IF from[l] \in DOMAIN c
                        THEN c[from[l]].id \o <<c[from[l]].Blob[2]>>
                        ELSE <<0>>)

\* buildCache.Lookup(name)
LookupHit(c, l) == l \in DOMAIN c /\ c[l].id = LayerIdentity(c, l)
\* For a build-only layer the entry only counts while the snapshot it names
\* is still in the Snapshot Store.
Found(c, s, l) == LookupHit(c, l) /\ (buildOnly[l] => c[l].Name \in s)

\* buildCache.Put(name, blob)
Put(c, l, blob) ==
    [x \in DOMAIN c \cup {l} |->
        IF x = l THEN [Name |-> l, Blob |-> blob, id |-> LayerIdentity(c, l)]
        ELSE c[x]]

\* ------------------------------------------------- image store
\* oci.UpdateReference(name, desc)
UpdateReference(r, name, desc) ==
    [x \in DOMAIN r \cup {name} |-> IF x = name THEN desc ELSE r[x]]

\* ------------------------------------------------- snapshot store
\* s.Delete(name); the caller ignores its error. Deleting can only fail to
\* remove a snapshot that is there.
Delete(s, name, ok) == IF ok THEN s \ {name} ELSE s
DeleteOutcomes(s, name) == IF name \in s THEN BOOLEAN ELSE {TRUE}
\* s.Create(name), s.Restore(source, target), s.Snapshot(source, target)
CanCreate(s, name) == name \notin s
CanCopy(s, source, target) == source \in s /\ target \notin s

\* ------------------------------------------------------ initial state
Options == [LayerType : LayerTypes, NoCache : BOOLEAN, OrderOnly : BOOLEAN]
NoOptions == [LayerType |-> "tar", NoCache |-> FALSE, OrderOnly |-> FALSE]

\* Recipe sets: the layers are listed file by file; a layer's base is scratch
\* or an external image (0) or another layer of the set.
RecipeFiles(L) == {f \in [L -> Files] :
                     /\ f[1] = 1
                     /\ \A l \in L \ {1} : f[l] \in {f[l - 1], f[l - 1] + 1}}
RecipeBases(L) == {b \in [L -> {0} \cup L] : \A l \in L : b[l] # l}

\* A recipe set over the layer names L, on a fresh working directory: empty
\* stores, nothing built, no stacker process yet.
InitOver(L) ==
    /\ fileOf \in RecipeFiles(L)
    /\ from \in RecipeBases(L)
    /\ buildOnly \in [L -> BOOLEAN]
    /\ ver = [l \in L |-> 1]
    /\ cache = <<>>
    /\ refs = <<>>
    /\ snaps = {}
    /\ pc = "none"
    /\ opts = NoOptions
    /\ sortedPaths = <<>>
    /\ fileIdx = 1
    /\ order = <<>>
    /\ layerIdx = 1
    /\ builtStackerfiles = {}
    /\ ret = "none"
    /\ runNo = 0
    /\ invoked = <<>>
    /\ succeeded = {}
    /\ looked = {}
    /\ hits = {}
    /\ ops = {}
    /\ refBefore = <<>>
    /\ failed = NoFailure
    /\ gcFailed = FALSE
    /\ rerun = FALSE
    /\ lastClean = FALSE

\* ----------------------------------------------- the working bundle
\* Paths of the working tree, relative to rootfs; "" is rootfs itself.
Paths == {"a", "d", "d/f"}
Parent(p) == IF p = "d/f" THEN "d" ELSE ""
Children(p) == {c \in Paths : Parent(c) = p}

\* What is at a path: nothing, a file with one of two contents, a directory,
\* or a whiteout (character device 0/0).
Kinds == {"none", "f1", "f2", "dir", "wh"}

\* Trees: an entry's parent is a directory.
IsTree(t) == \A p \in Paths : (t[p] # "none" /\ Parent(p) # "") => t[Parent(p)] = "dir"
Trees == {t \in [Paths -> Kinds \ {"wh"}] : IsTree(t)}

NoDiffs == [p \in Paths |-> "None"]
NoPaths == [include |-> {}, exclude |-> {}]

\* A bundle whose recorded manifest is that of its base, and a working tree
\* as the recipe's commands left it; no layer is being generated.
IdleBundle(base, tree) ==
    /\ rootfs = tree
    /\ mtrees = [d \in {0} |-> base]
    /\ metaFrom = 0
    /\ blobs = 0
    /\ gpc = "start"
    /\ gerr = "none"
    /\ diffs = NoDiffs
    /\ todo = {}
    /\ missing = <<>>
    /\ paths = NoPaths
    /\ made = {}
    /\ payload = <<>>
    /\ recorded = <<>>
    /\ before = tree
    /\ runs = <<>>
    /\ prev = [changes |-> {}, packed |-> {}]

EmptyTree == [p \in Paths |-> "none"]

Init == InitOver(1..2) /\ IdleBundle(EmptyTree, EmptyTree)

\* ------------------------------------------------ control of a Build call
CurFile == sortedPaths[fileIdx]
CurLayer == order[layerIdx]

\* A loop body that goes on to the next file whatever Build returned.
BuildReturnedContinue(e) ==
    /\ pc' = "loop"
    /\ ret' = ret
    /\ fileIdx' = fileIdx + 1
    /\ succeeded' = IF e = "err" THEN succeeded ELSE succeeded \cup {CurFile}

\* BuildMultiple's loop body after b.Build(p) returns e.
BuildReturned(e) ==
    IF e = "err"
    THEN /\ pc' = "returned"
         /\ ret' = "err"
         /\ fileIdx' = fileIdx
         /\ succeeded' = succeeded
    ELSE /\ pc' = "loop"
         /\ ret' = ret
         /\ fileIdx' = fileIdx + 1
         /\ succeeded' = succeeded \cup {CurFile}

\* A failure that skips the layer and keeps going with the next one.
FailSkipLayer(step, l) ==
    /\ failed' = [step |-> step, layer |-> l]
    /\ lastClean' = FALSE
    /\ pc' = "layer"
    /\ layerIdx' = layerIdx + 1
    /\ UNCHANGED <<ret, fileIdx, succeeded>>

\* `return err` inside Build, at the named step of layer l (0: no layer).
Fail(step, l) ==
    /\ failed' = [step |-> step, layer |-> l]
    /\ lastClean' = FALSE
    /\ layerIdx' = layerIdx
    /\ BuildReturned("err")

\* Build goes on to its next step for the same layer.
Goto(p) ==
    /\ pc' = p
    /\ UNCHANGED <<ret, fileIdx, succeeded, failed, lastClean, layerIdx>>

\* `continue`, or the end of the loop body: on to the next layer of the order.
Continue ==
    /\ pc' = "layer"
    /\ layerIdx' = layerIdx + 1
    /\ UNCHANGED <<ret, fileIdx, succeeded, failed, lastClean>>

\* --------------------------------------------------------- BuildMultiple
\* BuildMultiple up to its build loop: read the recipes, build the DAG, sort,
\* print the order, stop there when only the order was asked for.
BuildMultipleWithin(limit) ==
    /\ pc = "none"
    /\ runNo < limit
    /\ \E o \in Options, outcome \in {"ok", "read", "prerequisites"} :
        /\ opts' = o
        /\ runNo' = runNo + 1
        /\ builtStackerfiles' = {}
        /\ fileIdx' = 1
        /\ layerIdx' = 1
        /\ order' = <<>>
        /\ invoked' = <<>>
        /\ succeeded' = {}
        /\ looked' = {}
        /\ hits' = {}
        /\ ops' = {}
        /\ refBefore' = <<>>
        /\ gcFailed' = FALSE
        /\ rerun' = lastClean
        /\ IF outcome = "read" \/ DagHasCycle
           THEN /\ sortedPaths' = <<>>
                /\ pc' = "returned"
                /\ ret' = "err"
                /\ failed' = [step |-> IF outcome = "read" THEN "read" ELSE "cycle",
                              layer |-> 0]
           ELSE /\ sortedPaths' = Sort
                /\ IF outcome = "prerequisites"
                   THEN pc' = "returned" /\ ret' = "err"
                        /\ failed' = [step |-> "prerequisites", layer |-> 0]
                   ELSE IF o.OrderOnly
                        THEN pc' = "returned" /\ ret' = "nil" /\ failed' = NoFailure
                        ELSE pc' = "loop" /\ ret' = "running" /\ failed' = NoFailure
    /\ UNCHANGED <<bundleVars, genVars, recipeVars, storeVars, lastClean>>

BuildMultipleStart == BuildMultipleWithin(MaxRuns)

\* The build loop has gone through sortedPaths: BuildMultiple returns nil.
BuildMultipleDone ==
    /\ pc = "loop"
    /\ fileIdx > Len(sortedPaths)
    /\ pc' = "returned"
    /\ ret' = "nil"
    /\ lastClean' = ~opts.NoCache
    /\ UNCHANGED <<bundleVars, genVars, recipeVars, storeVars, opts, sortedPaths, fileIdx, order, layerIdx,
                   builtStackerfiles, runNo, invoked, succeeded, looked, hits,
                   ops, refBefore, failed, gcFailed, rerun>>

\* ------------------------------------------------------------------ Build
\* The loop calls b.Build(p); Build up to its layer loop.
BuildBegin ==
    /\ pc = "loop"
    /\ fileIdx <= Len(sortedPaths)
    /\ \E outcome \in {"ok", "open", "cache"},
          delOk \in DeleteOutcomes(snaps, WorkingContainerName) :
        LET p == CurFile
            opened == outcome # "open" /\ ~OrderHasCycle(p)
            ok == opened /\ outcome = "ok"
        IN  /\ invoked' = Append(invoked, p)
            /\ cache' = IF opts.NoCache THEN <<>> ELSE cache
            /\ builtStackerfiles' = IF opened THEN builtStackerfiles \cup {p}
                                    ELSE builtStackerfiles
            /\ order' = IF opened THEN DependencyOrder(p) ELSE <<>>
            /\ snaps' = IF ok THEN Delete(snaps, WorkingContainerName, delOk) ELSE snaps
            /\ ops' = ops
                   \cup (IF opts.NoCache THEN {Op("RemoveAll", 0, 0, TRUE)} ELSE {})
                   \cup (IF ok THEN {Op("Delete", WorkingContainerName, 0, TRUE)} ELSE {})
            /\ IF ok
               THEN /\ pc' = "layer"
                    /\ layerIdx' = 1
                    /\ UNCHANGED <<ret, fileIdx, succeeded, failed, lastClean>>
               ELSE Fail(IF opened THEN "cache" ELSE "open", 0)
    /\ UNCHANGED <<bundleVars, genVars, recipeVars, refs, opts, sortedPaths, runNo, looked, hits,
                   refBefore, gcFailed, rerun>>

\* Import's error is dropped: the layer goes on to its cache lookup.
LayerImportIgnoresError ==
    /\ pc = "layer"
    /\ layerIdx <= Len(order)
    /\ \E outcome \in {"ok", "parse", "import"} :
        LET l == CurLayer
        IN  /\ refBefore' = RefOf(refs, l)
            /\ ops' = IF outcome = "parse" THEN ops
                      ELSE ops \cup {Op("Import", l, l, outcome = "ok")}
            /\ IF outcome \in {"ok", "import"} THEN Goto("lookup") ELSE Fail(outcome, l)
    /\ UNCHANGED <<bundleVars, genVars, recipeVars, storeVars, opts, sortedPaths, order, builtStackerfiles,
                   runNo, invoked, looked, hits, gcFailed, rerun>>

\* A layer's attempt begins: parse and run its imports.
LayerImport ==
    /\ pc = "layer"
    /\ layerIdx <= Len(order)
    /\ \E outcome \in {"ok", "parse", "import"} :
        LET l == CurLayer
        IN  /\ refBefore' = RefOf(refs, l)
            /\ ops' = IF outcome = "parse" THEN ops
                      ELSE ops \cup {Op("Import", l, l, outcome = "ok")}
            /\ IF outcome = "ok" THEN Goto("lookup") ELSE Fail(outcome, l)
    /\ UNCHANGED <<bundleVars, genVars, recipeVars, storeVars, opts, sortedPaths, order, builtStackerfiles,
                   runNo, invoked, looked, hits, gcFailed, rerun>>

\* A hit path without its `continue`: the cached layer is served and then
\* built all the same.
CacheHitFallsThrough ==
    /\ pc = "lookup"
    /\ Found(cache, snaps, CurLayer)
    /\ \E outcome \in {"ok", "store", "saved", "save"} :
        LET l == CurLayer
            entry == cache[l]
            copy == buildOnly[l] /\ entry.Name # l
            copied == copy /\ outcome # "store" /\ CanCopy(snaps, entry.Name, l)
            updated == ~buildOnly[l] /\ outcome # "store"
            stored == IF buildOnly[l] THEN (~copy \/ copied) ELSE updated
        IN  /\ looked' = looked \cup {l}
            /\ hits' = hits \cup {l}
            /\ snaps' = IF copied THEN snaps \cup {l} ELSE snaps
            /\ refs' = IF updated THEN UpdateReference(refs, l, entry.Blob) ELSE refs
            /\ ops' = ops
                   \cup (IF copy THEN {Op("Snapshot", l, l, copied)} ELSE {})
                   \cup (IF ~buildOnly[l]
                         THEN {Op("UpdateReference", l, l,
                                  updated /\ RefOf(refs, l) # entry.Blob)}
                         ELSE {})
                   \cup (IF stored /\ outcome \in {"saved", "save"}
                         THEN {Op("SaveLayer", l, l, outcome = "saved")} ELSE {})
            /\ IF ~stored THEN Fail("store", l)
               ELSE IF outcome = "save" THEN Fail("save", l)
               ELSE Goto("base")
    /\ UNCHANGED <<bundleVars, genVars, recipeVars, cache, opts, sortedPaths, order, builtStackerfiles,
                   runNo, invoked, refBefore, gcFailed, rerun>>

\* A hit taken on the entry alone, without asking whether a build-only
\* layer's snapshot is still there.
CacheHitUnverified ==
    /\ pc = "lookup"
    /\ LookupHit(cache, CurLayer)
    /\ \E outcome \in {"ok", "store", "saved", "save"} :
        LET l == CurLayer
            entry == cache[l]
            copy == buildOnly[l] /\ entry.Name # l
            copied == copy /\ outcome # "store" /\ CanCopy(snaps, entry.Name, l)
            updated == ~buildOnly[l] /\ outcome # "store"
            stored == IF buildOnly[l] THEN (~copy \/ copied) ELSE updated
        IN  /\ looked' = looked \cup {l}
            /\ hits' = hits \cup {l}
            /\ snaps' = IF copied THEN snaps \cup {l} ELSE snaps
            /\ refs' = IF updated THEN UpdateReference(refs, l, entry.Blob) ELSE refs
            /\ ops' = ops
                   \cup (IF copy THEN {Op("Snapshot", l, l, copied)} ELSE {})
                   \cup (IF ~buildOnly[l]
                         THEN {Op("UpdateReference", l, l,
                                  updated /\ RefOf(refs, l) # entry.Blob)}
                         ELSE {})
                   \cup (IF stored /\ outcome \in {"saved", "save"}
                         THEN {Op("SaveLayer", l, l, outcome = "saved")} ELSE {})
            /\ IF ~stored THEN Fail("store", l)
               ELSE IF outcome = "save" THEN Fail("save", l)
               ELSE Continue
    /\ UNCHANGED <<bundleVars, genVars, recipeVars, cache, opts, sortedPaths, order, builtStackerfiles,
                   runNo, invoked, refBefore, gcFailed, rerun>>

\* buildCache.Lookup finds the layer: repoint its reference (or make the cached
\* snapshot available under its name), save it if the recipe file has a save
\* URL ("saved", or "save" when that fails), and continue.
CacheHit ==
    /\ pc = "lookup"
    /\ Found(cache, snaps, CurLayer)
    /\ \E outcome \in {"ok", "store", "saved", "save"} :
        LET l == CurLayer
            entry == cache[l]
            copy == buildOnly[l] /\ entry.Name # l
            copied == copy /\ outcome # "store" /\ CanCopy(snaps, entry.Name, l)
            updated == ~buildOnly[l] /\ outcome # "store"
            stored == IF buildOnly[l] THEN (~copy \/ copied) ELSE updated
        IN  /\ looked' = looked \cup {l}
            /\ hits' = hits \cup {l}
            /\ snaps' = IF copied THEN snaps \cup {l} ELSE snaps
            /\ refs' = IF updated THEN UpdateReference(refs, l, entry.Blob) ELSE refs
            /\ ops' = ops
                   \cup (IF copy THEN {Op("Snapshot", l, l, copied)} ELSE {})
                   \cup (IF ~buildOnly[l]
                         THEN {Op("UpdateReference", l, l,
                                  updated /\ RefOf(refs, l) # entry.Blob)}
                         ELSE {})
                   \cup (IF stored /\ outcome \in {"saved", "save"}
                         THEN {Op("SaveLayer", l, l, outcome = "saved")} ELSE {})
            /\ IF ~stored THEN Fail("store", l)
               ELSE IF outcome = "save" THEN Fail("save", l)
               ELSE Continue
    /\ UNCHANGED <<bundleVars, genVars, recipeVars, cache, opts, sortedPaths, order, builtStackerfiles,
                   runNo, invoked, refBefore, gcFailed, rerun>>

\* A lookup whose result is ignored: the layer is built even when it is cached.
CacheMissAlways ==
    /\ pc = "lookup"
    /\ looked' = looked \cup {CurLayer}
    /\ Goto("base")
    /\ UNCHANGED <<bundleVars, genVars, recipeVars, storeVars, opts, sortedPaths, order, builtStackerfiles,
                   runNo, invoked, hits, ops, refBefore, gcFailed, rerun>>

\* buildCache.Lookup does not find the layer: it is built.
CacheMiss ==
    /\ pc = "lookup"
    /\ ~Found(cache, snaps, CurLayer)
    /\ looked' = looked \cup {CurLayer}
    /\ Goto("base")
    /\ UNCHANGED <<bundleVars, genVars, recipeVars, storeVars, opts, sortedPaths, order, builtStackerfiles,
                   runNo, invoked, hits, ops, refBefore, gcFailed, rerun>>

\* Delete the working snapshot, then restore the base layer's snapshot into it
\* or create it afresh.
MaterializeBase ==
    /\ pc = "base"
    /\ \E ok \in BOOLEAN, delOk \in DeleteOutcomes(snaps, WorkingContainerName) :
        LET l == CurLayer
            w == WorkingContainerName
            s1 == Delete(snaps, w, delOk)
            built == from[l] # 0
            done == ok /\ (IF built THEN CanCopy(s1, from[l], w) ELSE CanCreate(s1, w))
        IN  /\ snaps' = IF done THEN s1 \cup {w} ELSE s1
            /\ ops' = ops \cup {Op("Delete", w, l, TRUE),
                                Op(IF built THEN "Restore" ELSE "Create", w, l, w \in s1)}
            /\ IF done THEN Goto("getbase")
               ELSE Fail(IF built THEN "restore" ELSE "create", l)
    /\ UNCHANGED <<bundleVars, genVars, recipeVars, cache, refs, opts, sortedPaths, order, builtStackerfiles,
                   runNo, invoked, looked, hits, refBefore, gcFailed, rerun>>

\* GetBaseLayer, NewApply, DoApply
GetBaseLayerApply ==
    /\ pc = "getbase"
    /\ \E outcome \in {"ok", "getbase", "apply"} :
        IF outcome = "ok" THEN Goto("run") ELSE Fail(outcome, CurLayer)
    /\ UNCHANGED <<bundleVars, genVars, recipeVars, storeVars, opts, sortedPaths, order, builtStackerfiles,
                   runNo, invoked, looked, hits, ops, refBefore, gcFailed, rerun>>

\* Run's error is recorded but not returned: the build goes on to package.
RunCommandsSwallowError ==
    /\ pc = "run"
    /\ \E outcome \in {"ok", "empty", "parse", "nosh", "write", "run"} :
        LET l == CurLayer
        IN  /\ ops' = IF outcome \in {"ok", "run"}
                      THEN ops \cup {Op("Run", l, l, outcome = "ok")}
                      ELSE ops
            /\ IF outcome \in {"ok", "empty"} THEN Goto("package")
               ELSE IF outcome = "run"
                    THEN /\ failed' = [step |-> "run", layer |-> l]
                         /\ pc' = "package"
                         /\ UNCHANGED <<ret, fileIdx, succeeded, lastClean, layerIdx>>
                    ELSE Fail(outcome, l)
    /\ UNCHANGED <<bundleVars, genVars, recipeVars, storeVars, opts, sortedPaths, order, builtStackerfiles,
                   runNo, invoked, looked, hits, refBefore, gcFailed, rerun>>

\* ParseRun and, when the recipe has commands, Run on the working tree
\* ("empty": the recipe has none, and nothing is run).
RunCommands ==
    /\ pc = "run"
    /\ \E outcome \in {"ok", "empty", "parse", "nosh", "write", "run"} :
        LET l == CurLayer
        IN  /\ ops' = IF outcome \in {"ok", "run"}
                      THEN ops \cup {Op("Run", l, l, outcome = "ok")}
                      ELSE ops
            /\ IF outcome \in {"ok", "empty"} THEN Goto("package") ELSE Fail(outcome, l)
    /\ UNCHANGED <<bundleVars, genVars, recipeVars, storeVars, opts, sortedPaths, order, builtStackerfiles,
                   runNo, invoked, looked, hits, refBefore, gcFailed, rerun>>

\* A build-only layer: snapshot the working tree under the layer's name and
\* put the build-only marker in the cache.
BuildOnlyLayer ==
    /\ pc = "package"
    /\ buildOnly[CurLayer]
    /\ \E outcome \in {"ok", "snapshot", "put"},
          delOk \in DeleteOutcomes(snaps, CurLayer) :
        LET l == CurLayer
            s1 == Delete(snaps, l, delOk)
            taken == outcome # "snapshot" /\ CanCopy(s1, WorkingContainerName, l)
            put == taken /\ outcome # "put"
        IN  /\ snaps' = IF taken THEN s1 \cup {l} ELSE s1
            /\ cache' = IF put THEN Put(cache, l, EmptyDescriptor) ELSE cache
            /\ ops' = ops \cup {Op("Delete", l, l, TRUE), Op("Snapshot", l, l, taken)}
                          \cup (IF taken THEN {Op("Put", l, l, put)} ELSE {})
            /\ IF put THEN Continue
               ELSE Fail(IF taken THEN "put" ELSE "snapshot", l)
    /\ UNCHANGED <<bundleVars, genVars, recipeVars, refs, opts, sortedPaths, order, builtStackerfiles,
                   runNo, invoked, looked, hits, refBefore, gcFailed, rerun>>

\* The packaging backend writes the layer blob and moves the layer's tag to
\* the image that holds it.
Packaged(l, ok) ==
    /\ refs' = IF ok THEN UpdateReference(refs, l, Descriptor(l, runNo, "layer")) ELSE refs
    /\ ops' = ops \cup {Op("AddBlob", l, l, ok)}
                  \cup (IF ok THEN {Op("UpdateReference", l, l, TRUE)} ELSE {})
    /\ IF ok THEN Goto("mutate") ELSE Fail("generate", l)

\* switch opts.LayerType
GenerateLayer ==
    /\ pc = "package"
    /\ ~buildOnly[CurLayer]
    /\ \/ /\ opts.LayerType = "tar"
          /\ \E ok \in BOOLEAN : Packaged(CurLayer, ok)
       \/ /\ opts.LayerType = "squashfs"
          /\ \E ok \in BOOLEAN : Packaged(CurLayer, ok)
       \/ /\ opts.LayerType \notin {"tar", "squashfs"}
          /\ UNCHANGED <<refs, ops>>
          /\ Fail("layertype", CurLayer)
    /\ UNCHANGED <<bundleVars, genVars, recipeVars, cache, snaps, opts, sortedPaths, order, builtStackerfiles,
                   runNo, invoked, looked, hits, refBefore, gcFailed, rerun>>

\* Resolve the tag, edit the image configuration, commit the new manifest and
\* point the tag at it.
MetadataCommit ==
    /\ pc = "mutate"
    /\ \E outcome \in {"ok", "resolve", "mutate", "commit", "update"} :
        LET l == CurLayer
            resolved == l \in DOMAIN refs /\ outcome # "resolve"
            committed == resolved /\ outcome \notin {"mutate", "commit"}
            updated == committed /\ outcome # "update"
        IN  /\ refs' = IF updated
                       THEN UpdateReference(refs, l, Descriptor(l, runNo, "manifest"))
                       ELSE refs
            /\ ops' = ops \cup (IF committed THEN {Op("Commit", l, l, TRUE)} ELSE {})
                          \cup (IF committed THEN {Op("UpdateReference", l, l, updated)}
                                ELSE {})
            /\ IF updated THEN Goto("bundle")
               ELSE Fail(IF ~resolved THEN "resolve" ELSE outcome, l)
    /\ UNCHANGED <<bundleVars, genVars, recipeVars, cache, snaps, opts, sortedPaths, order, builtStackerfiles,
                   runNo, invoked, looked, hits, refBefore, gcFailed, rerun>>

\* updateBundleMtree and WriteBundleMeta on the working bundle
UpdateBundle ==
    /\ pc = "bundle"
    /\ \E outcome \in {"ok", "mtree", "meta"} :
        IF outcome = "ok" THEN Goto("snapshot") ELSE Fail(outcome, CurLayer)
    /\ UNCHANGED <<bundleVars, genVars, recipeVars, storeVars, opts, sortedPaths, order, builtStackerfiles,
                   runNo, invoked, looked, hits, ops, refBefore, gcFailed, rerun>>

\* Snapshot's error is dropped: Build goes on to the cache Put.
SnapshotLayerIgnoresError ==
    /\ pc = "snapshot"
    /\ \E ok \in BOOLEAN, delOk \in DeleteOutcomes(snaps, CurLayer) :
        LET l == CurLayer
            s1 == Delete(snaps, l, delOk)
            taken == ok /\ CanCopy(s1, WorkingContainerName, l)
        IN  /\ snaps' = IF taken THEN s1 \cup {l} ELSE s1
            /\ ops' = ops \cup {Op("Delete", l, l, TRUE), Op("Snapshot", l, l, taken)}
            /\ Goto("put")
    /\ UNCHANGED <<bundleVars, genVars, recipeVars, cache, refs, opts, sortedPaths, order, builtStackerfiles,
                   runNo, invoked, looked, hits, refBefore, gcFailed, rerun>>

\* Delete the layer's old snapshot and snapshot the working tree under its name.
SnapshotLayer ==
    /\ pc = "snapshot"
    /\ \E ok \in BOOLEAN, delOk \in DeleteOutcomes(snaps, CurLayer) :
        LET l == CurLayer
            s1 == Delete(snaps, l, delOk)
            taken == ok /\ CanCopy(s1, WorkingContainerName, l)
        IN  /\ snaps' = IF taken THEN s1 \cup {l} ELSE s1
            /\ ops' = ops \cup {Op("Delete", l, l, TRUE), Op("Snapshot", l, l, taken)}
            /\ IF taken THEN Goto("put") ELSE Fail("snapshot", l)
    /\ UNCHANGED <<bundleVars, genVars, recipeVars, cache, refs, opts, sortedPaths, order, builtStackerfiles,
                   runNo, invoked, looked, hits, refBefore, gcFailed, rerun>>

\* Resolve the tag, put its descriptor in the cache, then save the layer if
\* the recipe file has a save URL ("saved", or "save" when that fails).
PutCache ==
    /\ pc = "put"
    /\ \E outcome \in {"ok", "resolve", "put", "saved", "save"} :
        LET l == CurLayer
            resolved == l \in DOMAIN refs /\ outcome # "resolve"
            put == resolved /\ outcome # "put"
        IN  /\ cache' = IF put THEN Put(cache, l, refs[l]) ELSE cache
            /\ ops' = ops \cup (IF resolved THEN {Op("Put", l, l, put)} ELSE {})
                          \cup (IF put /\ outcome \in {"saved", "save"}
                                THEN {Op("SaveLayer", l, l, outcome = "saved")} ELSE {})
            /\ IF ~resolved THEN Fail("resolve", l)
               ELSE IF ~put THEN Fail("put", l)
               ELSE IF outcome = "save" THEN Fail("save", l)
               ELSE Continue
    /\ UNCHANGED <<bundleVars, genVars, recipeVars, refs, snaps, opts, sortedPaths, order, builtStackerfiles,
                   runNo, invoked, looked, hits, refBefore, gcFailed, rerun>>

\* What Build returns after oci.GC returned gcErr.
GCReturn(gcErr) == gcErr

\* Every layer of the order is done: garbage-collect the image store, return.
BuildGC ==
    /\ pc = "layer"
    /\ layerIdx > Len(order)
    /\ \E gcErr \in {"nil", "err"} :
        /\ gcFailed' = (gcErr = "err")
        /\ ops' = ops \cup {Op("GC", 0, 0, gcErr = "nil")}
        /\ IF GCReturn(gcErr) = "err"
           THEN Fail("gc", 0)
           ELSE /\ BuildReturned("nil")
                /\ UNCHANGED <<failed, lastClean, layerIdx>>
    /\ UNCHANGED <<bundleVars, genVars, recipeVars, storeVars, opts, sortedPaths, order, builtStackerfiles,
                   runNo, invoked, looked, hits, refBefore, rerun>>

\* ------------------------------------------------------------ environment
\* Between invocations a recipe is edited (and may later be edited back).
\* Version 1 stands for whatever the recipe says before the first build.
EditRecipeWithin(limit) ==
    /\ pc = "none"
    /\ runNo > 0
    /\ runNo < limit
    /\ \E l \in RecipeLayers : ver' = [ver EXCEPT ![l] = 3 - @]
    /\ lastClean' = FALSE
    /\ UNCHANGED <<bundleVars, genVars, fileOf, from, buildOnly, storeVars, posVars, runNo,
                   invoked, succeeded, looked, hits, ops, refBefore, failed, gcFailed,
                   rerun>>

EditRecipe == EditRecipeWithin(MaxRuns)

\* The stacker process ends; its Builder and what it did are gone, the recipes
\* and the stores stay.
ProcessExit ==
    /\ pc = "returned"
    /\ pc' = "none"
    /\ opts' = NoOptions
    /\ sortedPaths' = <<>>
    /\ fileIdx' = 1
    /\ order' = <<>>
    /\ layerIdx' = 1
    /\ builtStackerfiles' = {}
    /\ ret' = "none"
    /\ invoked' = <<>>
    /\ succeeded' = {}
    /\ looked' = {}
    /\ hits' = {}
    /\ ops' = {}
    /\ refBefore' = <<>>
    /\ failed' = NoFailure
    /\ gcFailed' = FALSE
    /\ rerun' = FALSE
    /\ UNCHANGED <<bundleVars, genVars, recipeVars, storeVars, runNo, lastClean>>

Next ==
    \/ BuildMultipleStart
    \/ BuildMultipleDone
    \/ BuildBegin
    \/ LayerImport
    \/ CacheHit
    \/ CacheMiss
    \/ MaterializeBase
    \/ GetBaseLayerApply
    \/ RunCommands
    \/ BuildOnlyLayer
    \/ GenerateLayer
    \/ MetadataCommit
    \/ UpdateBundle
    \/ SnapshotLayer
    \/ PutCache
    \/ BuildGC
    \/ EditRecipe
    \/ ProcessExit

Spec == Init /\ [][Next]_vars

\* One invocation over three layers on a fresh working directory, where no
\* lookup can hit.
InitFresh == InitOver(Layers) /\ IdleBundle(EmptyTree, EmptyTree)

FirstBuild == runNo = 0 /\ BuildMultipleStart

NextFresh ==
    \/ FirstBuild
    \/ BuildMultipleDone
    \/ BuildBegin
    \/ LayerImport
    \/ CacheMiss
    \/ MaterializeBase
    \/ GetBaseLayerApply
    \/ RunCommands
    \/ BuildOnlyLayer
    \/ GenerateLayer
    \/ MetadataCommit
    \/ UpdateBundle
    \/ SnapshotLayer
    \/ PutCache
    \/ BuildGC

SpecFresh == InitFresh /\ [][NextFresh]_vars

\* A recipe set of one layer, followed over more invocations.
InitSolo == InitOver(1..1) /\ IdleBundle(EmptyTree, EmptyTree)

SoloStart == BuildMultipleWithin(MaxSoloRuns)
SoloEdit == EditRecipeWithin(MaxSoloRuns)

NextSolo ==
    \/ SoloStart
    \/ BuildMultipleDone
    \/ BuildBegin
    \/ LayerImport
    \/ CacheHit
    \/ CacheMiss
    \/ MaterializeBase
    \/ GetBaseLayerApply
    \/ RunCommands
    \/ BuildOnlyLayer
    \/ GenerateLayer
    \/ MetadataCommit
    \/ UpdateBundle
    \/ SnapshotLayer
    \/ PutCache
    \/ BuildGC
    \/ SoloEdit
    \/ ProcessExit

SpecSolo == InitSolo /\ [][NextSolo]_vars

\* ------------------------------------------------- generateSquashfsLayer
\* mtree.CompareSame(spec, newDH): one record per path of either manifest.
CompareSame(old, new) ==
    [p \in Paths |->
        IF old[p] = "none" /\ new[p] = "none" THEN "None"
        ELSE IF old[p] = "none" THEN "Extra"
        ELSE IF new[p] = "none" THEN "Missing"
        ELSE IF old[p] = new[p] THEN "Same"
        ELSE "Modified"]

\* squashfs.ExcludePaths
AddInclude(eps, p) == [eps EXCEPT !.include = @ \cup {p}]
AddExclude(eps, p) == [eps EXCEPT !.exclude = @ \cup {p}]

\* unix.Mknod(p, S_IFCHR, 0/0) on tree t: the errno it must give, or "" when
\* the tree lets it succeed.
MknodErrno(t, p) ==
    IF Parent(p) # "" /\ t[Parent(p)] = "none" THEN "ENOENT"
    ELSE IF Parent(p) # "" /\ t[Parent(p)] # "dir" THEN "ENOTDIR"
    ELSE IF t[p] # "none" THEN "EEXIST"
    ELSE ""

\* os.Remove(f): removes a file, a device or an empty directory; its error is
\* ignored.
Remove(t, p) ==
    IF t[p] = "none" THEN t
    ELSE IF t[p] = "dir" /\ \E c \in Children(p) : t[c] # "none" THEN t
    ELSE [t EXCEPT ![p] = "none"]

\* The deferred function: os.Remove on every path of `missing`, in order.
RECURSIVE RemoveAll(_, _)
RemoveAll(t, fs) ==
    IF fs = <<>> THEN t ELSE RemoveAll(Remove(t, Head(fs)), Tail(fs))

\* mtree.Walk(rootfs): the manifest of the tree as it is.
Walk(t) == t

\* What mksquashfs packs: the included paths that are in the tree.
Squashfs(t, eps) == [p \in {q \in eps.include : t[q] # "none"} |-> t[p]]

\* A return whose deferred function removes nothing.
GenReturnNoCleanup(e, t, fs) ==
    /\ gpc' = "done"
    /\ gerr' = e
    /\ rootfs' = t
    /\ runs' = Append(runs, e)

\* generateSquashfsLayer returns e; the deferred removals run on tree t.
GenReturn(e, t, fs) ==
    /\ gpc' = "done"
    /\ gerr' = e
    /\ rootfs' = RemoveAll(t, fs)
    /\ runs' = Append(runs, e)

\* Read the bundle's meta and recorded manifest, walk the tree, compare.
GenStart ==
    /\ gpc = "start"
    /\ \E outcome \in {"ok", "meta", "open", "parse", "walk", "compare"} :
        LET found == metaFrom \in DOMAIN mtrees /\ outcome = "ok"
        IN  IF found
            THEN /\ diffs' = CompareSame(mtrees[metaFrom], Walk(rootfs))
                 /\ todo' = {p \in Paths :
                               CompareSame(mtrees[metaFrom], Walk(rootfs))[p] # "None"}
                 /\ gpc' = "loop"
                 /\ UNCHANGED <<gerr, rootfs, runs>>
            ELSE /\ GenReturn("err", rootfs, <<>>)
                 /\ UNCHANGED <<diffs, todo>>
    /\ missing' = <<>>
    /\ paths' = NoPaths
    /\ made' = {}
    /\ recorded' = IF metaFrom \in DOMAIN mtrees THEN mtrees[metaFrom] ELSE <<>>
    /\ before' = rootfs
    /\ UNCHANGED <<buildVars, mtrees, metaFrom, blobs, payload, prev>>

\* A loop whose Modified case fell through to the Same case: a modified path
\* is excluded.
GenDiffModifiedExcluded ==
    /\ gpc = "loop"
    /\ \E p \in todo :
        /\ todo' = todo \ {p}
        /\ \/ /\ diffs[p] = "Extra"
              /\ missing' = Append(missing, p)
              /\ paths' = AddInclude(paths, p)
              /\ UNCHANGED <<rootfs, made, gpc, gerr, runs>>
           \/ /\ diffs[p] = "Missing"
              /\ missing' = Append(missing, p)
              /\ paths' = AddInclude(paths, p)
              /\ \E errno \in (IF MknodErrno(rootfs, p) = "" THEN {"", "EPERM"}
                               ELSE {MknodErrno(rootfs, p)}) :
                    IF errno = ""
                    THEN /\ rootfs' = [rootfs EXCEPT ![p] = "wh"]
                         /\ made' = made \cup {p}
                         /\ UNCHANGED <<gpc, gerr, runs>>
                    ELSE IF errno \in {"ENOENT", "ENOTDIR"}
                    THEN UNCHANGED <<rootfs, made, gpc, gerr, runs>>
                    ELSE /\ GenReturn("err", rootfs, Append(missing, p))
                         /\ UNCHANGED made
           \/ /\ diffs[p] \in {"Same", "Modified"}
              /\ paths' = AddExclude(paths, p)
              /\ UNCHANGED <<rootfs, made, gpc, gerr, missing, runs>>
    /\ UNCHANGED <<buildVars, mtrees, metaFrom, blobs, diffs, payload, recorded, before,
                   prev>>

\* A loop whose Same case includes the path instead of excluding it.
GenDiffSameIncluded ==
    /\ gpc = "loop"
    /\ \E p \in todo :
        /\ todo' = todo \ {p}
        /\ \/ /\ diffs[p] \in {"Modified", "Extra"}
              /\ missing' = Append(missing, p)
              /\ paths' = AddInclude(paths, p)
              /\ UNCHANGED <<rootfs, made, gpc, gerr, runs>>
           \/ /\ diffs[p] = "Missing"
              /\ missing' = Append(missing, p)
              /\ paths' = AddInclude(paths, p)
              /\ \E errno \in (IF MknodErrno(rootfs, p) = "" THEN {"", "EPERM"}
                               ELSE {MknodErrno(rootfs, p)}) :
                    IF errno = ""
                    THEN /\ rootfs' = [rootfs EXCEPT ![p] = "wh"]
                         /\ made' = made \cup {p}
                         /\ UNCHANGED <<gpc, gerr, runs>>
                    ELSE IF errno \in {"ENOENT", "ENOTDIR"}
                    THEN UNCHANGED <<rootfs, made, gpc, gerr, runs>>
                    ELSE /\ GenReturn("err", rootfs, Append(missing, p))
                         /\ UNCHANGED made
           \/ /\ diffs[p] = "Same"
              /\ paths' = AddInclude(paths, p)
              /\ UNCHANGED <<rootfs, made, gpc, gerr, missing, runs>>
    /\ UNCHANGED <<buildVars, mtrees, metaFrom, blobs, diffs, payload, recorded, before,
                   prev>>

\* One round of the loop over the diffs, which come in no particular order.
GenDiff ==
    /\ gpc = "loop"
    /\ \E p \in todo :
        /\ todo' = todo \ {p}
        /\ \/ /\ diffs[p] \in {"Modified", "Extra"}
              /\ missing' = Append(missing, p)
              /\ paths' = AddInclude(paths, p)
              /\ UNCHANGED <<rootfs, made, gpc, gerr, runs>>
           \/ /\ diffs[p] = "Missing"
              /\ missing' = Append(missing, p)
              /\ paths' = AddInclude(paths, p)
              /\ \E errno \in (IF MknodErrno(rootfs, p) = "" THEN {"", "EPERM"}
                               ELSE {MknodErrno(rootfs, p)}) :
                    IF errno = ""
                    THEN /\ rootfs' = [rootfs EXCEPT ![p] = "wh"]
                         /\ made' = made \cup {p}
                         /\ UNCHANGED <<gpc, gerr, runs>>
                    ELSE IF errno \in {"ENOENT", "ENOTDIR"}
                    THEN UNCHANGED <<rootfs, made, gpc, gerr, runs>>
                    ELSE /\ GenReturn("err", rootfs, Append(missing, p))
                         /\ UNCHANGED made
           \/ /\ diffs[p] = "Same"
              /\ paths' = AddExclude(paths, p)
              /\ UNCHANGED <<rootfs, made, gpc, gerr, missing, runs>>
    /\ UNCHANGED <<buildVars, mtrees, metaFrom, blobs, diffs, payload, recorded, before,
                   prev>>

\* mkSquashfs, AddBlobNoCompression, GenerateBundleManifest, removal of the
\* old manifest, WriteBundleMeta; then the return.
GenPackage ==
    /\ gpc = "loop"
    /\ todo = {}
    /\ \E outcome \in {"ok", "mksquashfs", "addblob", "manifest", "meta"} :
        LET packed == outcome # "mksquashfs"
            added == packed /\ outcome # "addblob"
            desc == blobs + 1
            written == added /\ outcome # "manifest"
        IN  /\ payload' = IF packed THEN Squashfs(rootfs, paths) ELSE payload
            /\ blobs' = IF added THEN desc ELSE blobs
            /\ mtrees' = IF written
                         THEN [d \in (DOMAIN mtrees \ {metaFrom}) \cup {desc} |->
                                  IF d = desc THEN Walk(rootfs) ELSE mtrees[d]]
                         ELSE mtrees
            /\ metaFrom' = IF outcome = "ok" THEN desc ELSE metaFrom
            /\ GenReturn(IF outcome = "ok" THEN "nil" ELSE "err", rootfs, missing)
    /\ UNCHANGED <<buildVars, diffs, todo, missing, paths, made, recorded, before, prev>>

\* The layer is snapshotted with its bundle, and the next layer, restored
\* from that snapshot and with no commands to run, is generated in its turn.
GenAgain ==
    /\ gpc = "done"
    /\ gerr = "nil"
    /\ Len(runs) < MaxCalls
    /\ gpc' = "start"
    /\ gerr' = "none"
    /\ prev' = [changes |-> {p \in Paths : diffs[p] \notin {"Same", "None"}},
                packed |-> DOMAIN payload]
    /\ UNCHANGED <<buildVars, bundleVars, diffs, todo, missing, paths, made, payload,
                   recorded, before, runs>>

NextDiff ==
    \/ GenStart
    \/ GenDiff
    \/ GenPackage
    \/ GenAgain

\* A bundle whose base manifest and working tree are any two trees.
InitDiff ==
    /\ InitOver(1..2)
    /\ fileOf = [l \in 1..2 |-> 1]
    /\ from = [l \in 1..2 |-> l - 1]
    /\ buildOnly = [l \in 1..2 |-> FALSE]
    /\ \E base \in Trees, tree \in Trees : IdleBundle(base, tree)

SpecDiff == InitDiff /\ [][NextDiff]_vars

\* ------------------------------------------------------------ properties
\* The layer whose step failed, when Build has returned that failure.
FailedLayer == failed.layer
BuildFailedInLayer == pc = "returned" /\ ret = "err" /\ FailedLayer # 0
PutDone(l) == Op("Put", l, l, TRUE) \in ops
PutTried(l) == \E flag \in BOOLEAN : Op("Put", l, l, flag) \in ops
RunFailed(l) == Op("Run", l, l, FALSE) \in ops

\* C1: if Run fails for a layer, then when Build returns no cache Put was made
\* for that layer in the attempt and the layer's named reference is what it
\* was when the attempt began.
C1_RunFailureAtomic ==
    \A l \in Layers :
        (pc = "returned" /\ RunFailed(l))
            => /\ ret = "err"
               /\ FailedLayer = l
               /\ ~PutTried(l)
               /\ RefOf(refs, l) = refBefore

\* Run failed on the rebuild of a layer that already had a named reference.
C1_Witness ==
    /\ BuildFailedInLayer
    /\ RunFailed(FailedLayer)
    /\ refBefore # <<>>
    /\ FailedLayer \in DOMAIN cache

\* C2: whichever step of a layer's build fails on a cache miss, Build ends
\* with no cache entry written for the layer and the layer's named reference
\* as it was before the attempt.
C2_AnyFailureAtomic ==
    (BuildFailedInLayer /\ FailedLayer \in looked /\ FailedLayer \notin hits)
        => /\ ~PutDone(FailedLayer)
           /\ RefOf(refs, FailedLayer) = refBefore

\* C3: between layer builds, a packaged cache entry's descriptor is the one
\* the layer's named reference resolves to.
BetweenLayerBuilds == pc \in {"none", "returned", "loop", "layer"}
C3_CacheMatchesReference ==
    BetweenLayerBuilds
        => \A l \in DOMAIN cache :
              cache[l].Blob # EmptyDescriptor => RefOf(refs, l) = cache[l].Blob

\* C4: a failing garbage collection at the end of Build is not the error of
\* the build: Build returns nil and BuildMultiple goes on.
C4_GCFailureNotFatal ==
    ~(pc = "returned" /\ ret = "err" /\ failed.step = "gc")

\* C5 as stated: a rebuild with nothing changed hits on every layer and makes
\* no Delete, Create, Restore, Snapshot, reference update, blob add or Put.
Unchanged == rerun /\ ~opts.NoCache
C5_RebuildMutatesNothing ==
    Unchanged
        => /\ looked \subseteq hits
           /\ \A o \in ops : o[1] \notin {"Delete", "Create", "Restore", "Snapshot",
                                          "UpdateReference", "AddBlob", "Commit", "Put"}

\* C5 amended: a rebuild with nothing changed hits on every layer and makes no
\* Create, Restore, Snapshot, blob add or Put; it deletes only the working
\* snapshot, at the start of each Build, and its reference updates write the
\* descriptor the reference already has.
C5_RebuildOnlyRepoints ==
    Unchanged
        => /\ looked \subseteq hits
           /\ \A o \in ops :
                \/ o[1] \in {"Import", "SaveLayer", "GC"}
                \/ o[1] = "Delete" /\ o[2] = WorkingContainerName /\ o[3] = 0
                \/ o[1] = "UpdateReference" /\ o[4] = FALSE

\* An unchanged rebuild of every layer has returned nil, and it repointed a
\* packaged layer and deleted the working snapshot.
C5_Witness ==
    /\ Unchanged
    /\ pc = "returned"
    /\ ret = "nil"
    /\ hits = RecipeLayers
    /\ \E l \in RecipeLayers : Op("UpdateReference", l, l, FALSE) \in ops
    /\ Op("Delete", WorkingContainerName, 0, TRUE) \in ops

\* C6: when Build returns an error while processing a layer, no Put for that
\* layer was performed in the attempt.
C6_NoPutOnFailure ==
    BuildFailedInLayer => ~PutDone(FailedLayer)

\* The files a file transitively depends on.
RECURSIVE PrerequisiteClosure(_, _)
PrerequisiteClosure(S, n) ==
    IF n = 0 THEN S
    ELSE PrerequisiteClosure(S \cup UNION {Prerequisites(f) : f \in S}, n - 1)
TransitivePrerequisites(f) == PrerequisiteClosure(Prerequisites(f), Cardinality(Files))

\* C7: Build is invoked on the files in the sequence Sort() returns, each at
\* most once and only after Build returned nil for every file it transitively
\* depends on; with a cyclic graph an error is returned and nothing is built.
C7_TopologicalBuildOrder ==
    /\ Len(invoked) <= Len(sortedPaths)
    /\ sortedPaths # <<>> => sortedPaths = Sort
    /\ \A k \in 1..Len(invoked) :
          /\ invoked[k] = sortedPaths[k]
          /\ \A j \in 1..(k - 1) : invoked[j] # invoked[k] /\ invoked[j] \in succeeded
          /\ TransitivePrerequisites(invoked[k]) \subseteq {invoked[j] : j \in 1..(k - 1)}
    /\ DagHasCycle => /\ invoked = <<>>
                      /\ pc = "returned" => ret = "err"

\* Three files in a chain against the lexical order were built, the last of
\* them depending on the first only through the second.
C7_Witness ==
    /\ pc = "returned"
    /\ ret = "nil"
    /\ invoked = <<3, 2, 1>>
    /\ 3 \in TransitivePrerequisites(1) \ Prerequisites(1)

\* C8: once a step has failed, the invocation looks up, imports and builds
\* nothing more, in this recipe file or a later one: it has returned.
C8_FailureStopsBuild ==
    [][failed.step # ""
         => /\ pc = "returned"
            /\ pc' = "none" \/ UNCHANGED <<looked, invoked, ops, storeVars>>]_vars

\* A layer failed while a later layer of its file was still to be built.
C8_Witness ==
    /\ BuildFailedInLayer
    /\ layerIdx < Len(order)
    /\ order[layerIdx + 1] \notin looked

\* C9: with an unknown LayerType no build step happens before Build fails.
BuildStepOps == {"Import", "Delete", "Create", "Restore", "Run", "Snapshot",
                 "UpdateReference", "AddBlob", "Commit", "Put"}
C9_UnknownLayerTypeFailsFirst ==
    opts.LayerType \notin {"tar", "squashfs"}
        => /\ \A o \in ops : o[1] \notin BuildStepOps
           /\ pc = "returned" /\ invoked # <<>> => ret = "err"

\* The loop over the diffs has handled every record.
DiffsHandled == gpc = "loop" /\ todo = {}

Removed == {p \in Paths : diffs[p] = "Missing"}

\* C10 (as stated): every path classified Removed (mtree Missing) gets a
\* whiteout marker in the working tree and is in the include list, and no
\* marker created by generateSquashfsLayer remains once it has returned.
C10_EveryRemovedPathMarked ==
    /\ DiffsHandled =>
         \A p \in Removed : p \in made /\ p \in paths.include
    /\ gpc = "done" => \A p \in made : rootfs[p] # "wh"

\* C10 (amended): every Removed path is in the include list; a marker is
\* created at it exactly when its parent is still a directory of the built
\* tree (under a removed or replaced parent mknod fails with the tolerated
\* ENOENT or ENOTDIR and no marker is made); and once generateSquashfsLayer
\* has returned, with success or with an error, nothing is left at any path
\* where it created a marker.
C10_RemovedMarkedUnlessTolerated ==
    /\ DiffsHandled =>
         \A p \in Removed :
            /\ p \in paths.include
            /\ p \in made <=> (Parent(p) = "" \/ rootfs[Parent(p)] = "dir")
            /\ p \in made => rootfs[p] = "wh"
    /\ gpc = "done" => \A p \in made : rootfs[p] = "none"

\* The directory d with its file d/f was removed: the marker at d was made,
\* packed and removed again, and d/f got none.
C10_Witness ==
    /\ gpc = "done"
    /\ gerr = "nil"
    /\ Removed = {"d", "d/f"}
    /\ made = {"d"}
    /\ "d" \in DOMAIN payload
    /\ payload["d"] = "wh"
    /\ rootfs["d"] = "none"

\* The classification of the paths of a comparison, from the manifest on
\* record and the tree as they were when the call began.
AddedPaths == {p \in Paths : recorded[p] = "none" /\ before[p] # "none"}
RemovedPaths == {p \in Paths : recorded[p] # "none" /\ before[p] = "none"}
ModifiedPaths == {p \in Paths : /\ recorded[p] # "none"
                                /\ before[p] # "none"
                                /\ recorded[p] # before[p]}
UnchangedPaths == {p \in Paths : recorded[p] # "none" /\ recorded[p] = before[p]}
GenSucceeded == gpc = "done" /\ gerr = "nil"

\* C11: the include list is exactly the Added, Modified and Removed paths and
\* the exclude list exactly the Unchanged ones; no path is in both and every
\* path of the comparison is in one; what is packed is exactly the Added and
\* Modified paths and the whiteout markers made for Removed paths.
C11_PayloadIsExactlyTheChanges ==
    /\ DiffsHandled =>
         /\ paths.include = AddedPaths \cup ModifiedPaths \cup RemovedPaths
         /\ paths.exclude = UnchangedPaths
         /\ paths.include \cap paths.exclude = {}
         /\ \A p \in Paths : (recorded[p] # "none" \/ before[p] # "none")
                                => p \in paths.include \cup paths.exclude
    /\ GenSucceeded =>
         /\ DOMAIN payload = AddedPaths \cup ModifiedPaths \cup made
         /\ made \subseteq RemovedPaths
         /\ \A p \in made : payload[p] = "wh"
         /\ \A p \in AddedPaths \cup ModifiedPaths : payload[p] = before[p]

\* a is unchanged, d was a file and is now a directory, d/f is new: d and d/f
\* are packed and a is not.
C11_Witness ==
    /\ GenSucceeded
    /\ UnchangedPaths = {"a"}
    /\ ModifiedPaths = {"d"}
    /\ AddedPaths = {"d/f"}
    /\ DOMAIN payload = {"d", "d/f"}
    /\ paths.exclude = {"a"}

\* The paths that differ between the manifest on record and the tree, as
\* they were when the call began.
Changes == AddedPaths \cup ModifiedPaths \cup RemovedPaths

\* C12: a run on a tree that is unchanged relative to the manifest on record
\* packs nothing, and the run that follows it at once is again on an
\* unchanged tree and packs nothing.
C12_RediffIsEmpty ==
    /\ (GenSucceeded /\ Changes = {})
          => /\ payload = <<>>
             /\ paths.include = {}
             /\ rootfs = before
    /\ (GenSucceeded /\ Len(runs) >= 2 /\ prev.changes = {})
          => /\ prev.packed = {}
             /\ Changes = {}
             /\ payload = <<>>

\* The second of two runs in a row on an unchanged tree that holds d/f.
C12_Witness ==
    /\ GenSucceeded
    /\ Len(runs) = 2
    /\ prev.changes = {}
    /\ prev.packed = {}
    /\ before["d/f"] # "none"
    /\ payload = <<>>

Imported(l) == Op("Import", l, l, TRUE) \in ops
ImportFailed(l) == Op("Import", l, l, FALSE) \in ops

\* C13: a layer's cache Lookup is made only after its Import has succeeded,
\* and never for a layer whose Import failed.
C13_ImportBeforeLookup ==
    /\ \A l \in looked : Imported(l) /\ ~ImportFailed(l)
    /\ pc = "lookup" => Imported(CurLayer)
    /\ \A l \in Layers : ImportFailed(l) => pc = "returned" /\ ret = "err" /\ l \notin looked

\* The second layer's Import failed after the first layer went through its
\* lookup.
C13_Witness ==
    /\ pc = "returned"
    /\ looked # {}
    /\ \E l \in Layers : ImportFailed(l) /\ l \notin looked

\* The operations made for layer l in this invocation.
OpsFor(l) == {o \in ops : o[3] = l}

InLayer == {"lookup", "base", "getbase", "run", "package", "mutate", "bundle",
            "snapshot", "put"}
LayerDone(l) ==
    /\ l \in looked
    /\ FailedLayer # l
    /\ ~(pc \in InLayer /\ CurLayer = l)

C16_WorkingSnapshotTornDown ==
    \A o \in ops :
        (o[1] \in {"Create", "Restore"} /\ o[2] = WorkingContainerName)
            => o[4] = FALSE

\* What has been done for layer l in this invocation, phase by phase.
Did(l, op) == \E o \in OpsFor(l) : o[1] = op
DidOk(l, op) == Op(op, l, l, TRUE) \in ops
CacheChecked(l) == l \in looked
BaseMaterialized(l) == Did(l, "Create") \/ Did(l, "Restore")
ImportTried(l) == Imported(l) \/ ImportFailed(l)

\* C17 (as stated): the phases of a packaged layer on a miss come in the
\* order CacheChecked, BaseMaterialized, ImportsApplied, CommandsRun, Diffed,
\* MetadataCommitted, Snapshotted, Done, and Put comes after the snapshot.
C17_StatedPhaseOrder ==
    \A l \in Layers :
        /\ BaseMaterialized(l) => CacheChecked(l) /\ l \notin hits
        /\ ImportTried(l) => BaseMaterialized(l)
        /\ Did(l, "Run") => Imported(l)
        /\ Did(l, "AddBlob") => BaseMaterialized(l) /\ ~RunFailed(l)
        /\ Did(l, "Commit") => DidOk(l, "AddBlob")
        /\ (Did(l, "Snapshot") /\ ~buildOnly[l]) => Did(l, "Commit")
        /\ Did(l, "Put") => DidOk(l, "Snapshot")

\* C17 (amended): Import comes first, before the cache check; then, on a
\* miss, BaseMaterialized, CommandsRun (Run is called only when the recipe has
\* commands), Diffed, MetadataCommitted, Snapshotted and Done, each only after
\* the one before it succeeded, and Put only after the snapshot was taken.
C17_ImportFirstPhaseOrder ==
    \A l \in Layers :
        /\ CacheChecked(l) => Imported(l)
        /\ BaseMaterialized(l) => CacheChecked(l) /\ l \notin hits
        /\ Did(l, "Run") => BaseMaterialized(l)
        /\ Did(l, "AddBlob") => BaseMaterialized(l) /\ ~RunFailed(l) /\ ~buildOnly[l]
        /\ Did(l, "Commit") => DidOk(l, "AddBlob")
        /\ (Did(l, "Snapshot") /\ ~buildOnly[l]) =>
              /\ Did(l, "Commit")
              /\ RefOf(refs, l) = Descriptor(l, runNo, "manifest")
        /\ (Did(l, "Snapshot") /\ buildOnly[l] /\ l \notin hits) => BaseMaterialized(l)
        /\ Did(l, "Put") => DidOk(l, "Snapshot")
        /\ (LayerDone(l) /\ l \notin hits) => DidOk(l, "Put")

\* A packaged layer went through every phase and is Done.
C17_Witness ==
    \E l \in Layers :
        /\ LayerDone(l)
        /\ ~buildOnly[l]
        /\ Imported(l)
        /\ BaseMaterialized(l)
        /\ DidOk(l, "Run")
        /\ DidOk(l, "AddBlob")
        /\ Did(l, "Commit")
        /\ DidOk(l, "Snapshot")
        /\ DidOk(l, "Put")

\* C18: the removals made on the way out take away nothing but whiteout
\* markers: every Added or Modified path is in the tree at return as it was
\* before packaging, and the tree is the built tree again.
C18_CleanupRemovesOnlyMarkers ==
    gpc = "done" =>
        /\ \A p \in AddedPaths \cup ModifiedPaths : rootfs[p] = before[p]
        /\ rootfs = before

\* C19: after a successful return the manifest on record is that of the tree
\* as it is at return; after an error the manifest that was on record when
\* the call began still is.
C19_ManifestMatchesTree ==
    /\ GenSucceeded =>
          /\ metaFrom \in DOMAIN mtrees
          /\ mtrees[metaFrom] = Walk(rootfs)
    /\ (gpc = "done" /\ gerr = "err" /\ recorded # <<>>) =>
          /\ metaFrom \in DOMAIN mtrees
          /\ mtrees[metaFrom] = recorded

\* C20: once BuildMultiple has returned, every layer name with a cache entry
\* has a snapshot of that name in the Snapshot Store.
C20_CachedLayerHasSnapshot ==
    pc \in {"returned", "none"} => \A l \in DOMAIN cache : l \in snaps

====
